---- MODULE Spec2Model ----
(***************************************************************************)
(* Model of the live voice pipeline of src/voz.py (VoiceChangerEngine and  *)
(* the App buttons that drive it): the capture callback, the ASR           *)
(* (segmentation) worker, the TTS (synthesis and playback) worker and the  *)
(* start()/stop() lifecycle, as interleaved threads over the engine's      *)
(* shared fields.                                                          *)
(*                                                                         *)
(* Time is counted in units of 50 ms.  The two time stamps of the engine   *)
(* are only ever read as "time.time() - stamp >= threshold", so each is    *)
(* kept as the time elapsed since it was set, capped at its threshold.     *)
(***************************************************************************)
EXTENDS Integers, Sequences, FiniteSets, TLC

\* ------------------------------------------------------------ bounds
\* Number of App.start presses explored (each spawns one ASR and one TTS thread).
MaxStarts == 2
\* Number of frames that pass the noise gate and enter audio_q.
MaxFrames == 2

\* ------------------------------------------------- program constants
min_phrase_len == 6
tts_max_retries == 3
\* tts_backoff = 1.0 s, in 50 ms units
tts_backoff == 20
\* silence_finalize_sec = 0.8 s
silence_finalize_sec == 16
\* partial_throttle_sec = 0.25 s
partial_throttle_sec == 5
\* the queue poll timeout of both workers, 0.2 s
queue_timeout == 4
\* queue.Queue(maxsize=80)
audio_q_maxsize == 80
\* rms_gate_threshold = 0.005, in thousandths of full scale
rms_gate_threshold == 5

\* --------------------------------------------------------- data sets
Workers == 1..MaxStarts
NoStream == 0
StreamIds == 1..(MaxStarts + MaxFrames)
NoPhrase == [id |-> 0, text |-> << >>, born |-> 0]
NoFrame == [id |-> 0, cap |-> 0]

\* Texts the recognizer may return in "text" (before .strip()).
RawTexts ==
  { << >>,
    << " " >>,
    << " ", "s", "i", " " >>,
    << "a", "d", "i", "o", "s" >>,
    << " ", "b", "u", "e", "n", "a", "s", " " >> }

\* Partial hypotheses the recognizer may return in "partial".
Partials == { << >>, << "b", "u" >>, << "b", "u", "e", "n" >> }

\* Sample blocks the device may deliver (amplitudes in thousandths).
FrameSamples == { << >>, << 0, 0 >>, << 4, 4 >>, << 5, 5 >>, << 3, 7 >>, << 0, 900 >> }

\* ----------------------------------------------------------- helpers
RECURSIVE LStrip(_)
LStrip(s) == IF s # << >> /\ Head(s) = " " THEN LStrip(Tail(s)) ELSE s

RECURSIVE RStrip(_)
RStrip(s) ==
  IF s # << >> /\ s[Len(s)] = " " THEN RStrip(SubSeq(s, 1, Len(s) - 1)) ELSE s

\* str.strip()
Strip(s) == RStrip(LStrip(s))

RECURSIVE SumSq(_)
SumSq(s) == IF s = << >> THEN 0 ELSE Head(s) * Head(s) + SumSq(Tail(s))

\* rms(arr) < thr, for thr >= 0: sqrt(mean(x^2)) < thr, compared without the root.
\* An empty block has rms 0.0.
RmsBelow(s, thr) ==
  IF s = << >> THEN 0 < thr ELSE SumSq(s) < thr * thr * Len(s)

\* Elapsed time since a stamp, d later, kept up to cap.
Advance(age, d, cap) == IF age + d >= cap THEN cap ELSE age + d

VARIABLES
  \* ---- engine fields
  model_loaded,      \* self.model / self.recognizer are not None
  rec_dirty,         \* the recognizer holds audio it has not finalized
  stop_event,
  stream_in,         \* handle of the capture stream, NoStream for None
  open_streams,      \* input streams started and not yet stopped
  audio_q,
  phrase_q,
  ducking,
  ffmpeg_available,
  last_partial,      \* _last_partial
  since_partial,     \* time.time() - _last_partial_time, capped
  since_activity,    \* time.time() - _last_activity_time, capped
  speech_seen,       \* _speech_seen_this_segment
  \* ---- threads
  cpc,               \* the UI thread inside App.start / App.stop
  btn_running,       \* Start button disabled, Stop button enabled
  asr,               \* per ASR thread: pc, inbuf
  tts,               \* per TTS thread: pc, text, and for the phrase in hand:
                     \* synthesizer calls and answers, clips, plays, log
                     \* messages, time slept, mp3 (its raw file is in
                     \* cache_dir), stops_at_take (stop() calls entered when
                     \* it was dequeued); failed_before: an earlier phrase
                     \* of this thread failed
  \* ---- history
  starts,            \* threads pairs spawned so far
  nframes,           \* frames put on audio_q so far
  nphrases,          \* phrases put on phrase_q so far
  stops_begun,       \* stop() calls entered
  stops_returned,    \* stop() calls returned
  \* ---- what the callbacks and the recognizer saw last
  heard,             \* the latest step of an ASR thread on a frame or on the
                     \* silence check: final (the recognizer reported final),
                     \* got (the non-empty partial it read), shown (that
                     \* partial went to on_partial), asked (the silence check
                     \* called FinalResult()), flush (the step was the
                     \* FinalResult() after the loop), put (number of the
                     \* phrase the step put on phrase_q, 0 for none)
  \* ---- the Text-to-Voice panel
  one_shot,          \* the one-shot TTS thread: pc, kind
  \* ---- the capture callback
  pending,           \* the frame _audio_callback is blocked on in put(),
                     \* NoFrame when no callback is blocked
  \* ---- the transcript
  txt                \* App.txt: lines (on_final calls so far) and queued
                     \* (the phrase of the last call was on phrase_q
                     \* already when on_final was called)

vars ==
  << model_loaded, rec_dirty, stop_event, stream_in, open_streams, audio_q,
     phrase_q, ducking, ffmpeg_available, last_partial, since_partial,
     since_activity, speech_seen, cpc, btn_running, asr, tts,
     starts, nframes, nphrases, stops_begun, stops_returned, heard, one_shot,
     txt,
     pending >>

engine_cfg == << ducking, ffmpeg_available >>
segment == << last_partial, since_partial, since_activity, speech_seen >>
history == << starts, nframes, nphrases, stops_begun, stops_returned >>

AsrIdle == [pc |-> "none", inbuf |-> NoFrame]
NoHeard ==
  [final |-> FALSE, got |-> << >>, shown |-> FALSE, asked |-> FALSE,
   flush |-> FALSE, put |-> 0]
OneShotIdle == [pc |-> "none", kind |-> "none"]
TtsIdle ==
  [pc |-> "none", text |-> NoPhrase, n |-> 0, calls |-> 0, clips |-> 0,
   plays |-> 0, retry_logs |-> 0, error_logs |-> 0, slept |-> 0, mp3 |-> FALSE,
   answers |-> << >>, stops_at_take |-> 0, failed_before |-> FALSE]

\* VoiceChangerEngine.__init__, with App.__init__ leaving Stop disabled.
InitEngine ==
  /\ model_loaded = FALSE
  /\ rec_dirty = FALSE
  /\ stop_event = FALSE
  /\ stream_in = NoStream
  /\ open_streams = {}
  /\ audio_q = << >>
  /\ phrase_q = << >>
  /\ ffmpeg_available \in BOOLEAN
  /\ last_partial = << >>
  /\ since_partial = partial_throttle_sec
  /\ since_activity = 0
  /\ speech_seen = FALSE
  /\ cpc = "idle"
  /\ btn_running = FALSE
  /\ asr = [w \in Workers |-> AsrIdle]
  /\ tts = [w \in Workers |-> TtsIdle]
  /\ starts = 0
  /\ nframes = 0
  /\ nphrases = 0
  /\ stops_begun = 0
  /\ stops_returned = 0
  /\ heard = NoHeard
  /\ one_shot = OneShotIdle
  /\ pending = NoFrame
  /\ txt = [lines |-> 0, queued |-> FALSE]

Init == InitEngine /\ ducking = TRUE

\* Engine flags that App.start sets before every start (lines 566-570).
enable_noise_gate == TRUE
keep_mp3 == FALSE
print_partials == TRUE

\* ------------------------------------------------- capture (Frame Source)
\* The handle sd.InputStream(...) returns: a stream that is not open yet.
NewStream ==
  CHOOSE s \in StreamIds :
    s \notin open_streams /\ \A t \in StreamIds : t < s => t \in open_streams

\* start_input(): opens a new stream and stores its handle; when the device
\* refuses (ok = FALSE) the constructor raises and nothing is assigned.
start_input(ok) ==
  IF ok
  THEN /\ stream_in' = NewStream
       /\ open_streams' = open_streams \cup {NewStream}
  ELSE UNCHANGED << stream_in, open_streams >>

\* stop_input() doing nothing.
stop_input_skipped == UNCHANGED << stream_in, open_streams >>

\* stop_input(): stops and closes the stream the handle names, if any.
\* stream.stop() returns only when the stream's callback has returned, so
\* it waits as long as the callback is blocked in put().
stop_input ==
  IF stream_in # NoStream
  THEN /\ pending = NoFrame
       /\ open_streams' = open_streams \ {stream_in}
       /\ stream_in' = NoStream
  ELSE UNCHANGED << stream_in, open_streams >>

\* The noise gate switched off.
Gated_never(samples) == FALSE

\* The noise gate of _audio_callback: TRUE when the block is discarded.
Gated(samples) == enable_noise_gate /\ RmsBelow(samples, rms_gate_threshold)

\* put() on a full queue giving the frame up instead of waiting.
blocked_put_drops(frame) == UNCHANGED << audio_q, pending >>

\* put() on a full queue: the callback waits with the frame in hand.
blocked_put(frame) == pending' = frame /\ UNCHANGED audio_q

\* The body of _audio_callback for one block of samples: a block under the
\* gate is discarded, any other is copied and put on audio_q.
audio_callback(samples) ==
  IF Gated(samples)
  THEN UNCHANGED << audio_q, nframes, pending >>
  ELSE /\ nframes' = nframes + 1
       /\ IF Len(audio_q) < audio_q_maxsize
          THEN /\ audio_q' = Append(audio_q,
                                [id |-> nframes + 1, cap |-> stops_begun])
               /\ UNCHANGED pending
          ELSE blocked_put([id |-> nframes + 1, cap |-> stops_begun])

\* _audio_callback, run by an open stream whose previous callback has
\* returned (one blocked callback is followed at a time).  At most limit
\* frames pass the gate.
AudioCallback(limit) ==
  /\ open_streams # {}
  /\ pending = NoFrame
  /\ nframes < limit
  /\ \E samples \in FrameSamples : audio_callback(samples)
  /\ UNCHANGED << model_loaded, rec_dirty, stop_event, stream_in, open_streams,
                  phrase_q, engine_cfg, segment, cpc, btn_running,
                  asr, tts, starts, nphrases, stops_begun, stops_returned >>
  /\ UNCHANGED << heard, one_shot, txt >>

\* The put() a callback was blocked in returns once audio_q has a free slot.
CallbackPut ==
  /\ pending # NoFrame
  /\ Len(audio_q) < audio_q_maxsize
  /\ audio_q' = Append(audio_q, pending)
  /\ pending' = NoFrame
  /\ UNCHANGED << model_loaded, rec_dirty, stop_event, stream_in, open_streams,
                  phrase_q, engine_cfg, segment, cpc, btn_running,
                  asr, tts, history >>
  /\ UNCHANGED << heard, one_shot, txt >>

\* Wall-clock time d passes.
Tick(d) ==
  /\ since_partial' = Advance(since_partial, d, partial_throttle_sec)
  /\ since_activity' = Advance(since_activity, d, silence_finalize_sec)
  /\ UNCHANGED << model_loaded, rec_dirty, stop_event, stream_in, open_streams,
                  audio_q, phrase_q, engine_cfg, last_partial, speech_seen,
                  cpc, btn_running, asr, tts, history >>
  /\ UNCHANGED << heard, one_shot, pending, txt >>

\* ------------------------------------------------------------ lifecycle
\* App.start up to start()'s stop_event.clear(): load_model (a new recognizer),
\* the settings, and the model check of start(), which a loaded model passes.
\* The Start button is enabled only while btn_running is FALSE.  At most
\* limit sessions are started.
AppStart(limit) ==
  /\ cpc = "idle"
  /\ ~btn_running
  /\ starts < limit
  /\ \E ok \in BOOLEAN :
       IF ok
       THEN /\ model_loaded' = TRUE
            /\ rec_dirty' = FALSE
            /\ ducking' = TRUE
            /\ stop_event' = FALSE
            /\ cpc' = "start_input"
       ELSE UNCHANGED << model_loaded, rec_dirty, ducking, stop_event, cpc >>
  /\ UNCHANGED << stream_in, open_streams, audio_q, phrase_q, ffmpeg_available,
                  segment, btn_running, asr, tts, history >>
  /\ UNCHANGED << heard, one_shot, pending, txt >>

\* start(): self.start_input(); an exception leaves App.start through its except.
StartInput ==
  /\ cpc = "start_input"
  /\ \E ok \in BOOLEAN :
       /\ start_input(ok)
       /\ cpc' = IF ok THEN "start_spawn" ELSE "idle"
  /\ UNCHANGED << model_loaded, rec_dirty, stop_event, audio_q, phrase_q,
                  engine_cfg, segment, btn_running, asr, tts, history >>
  /\ UNCHANGED << heard, one_shot, pending, txt >>

\* start(): both threads are created and started; then App.start flips the buttons.
StartSpawn ==
  /\ cpc = "start_spawn"
  /\ asr' = [asr EXCEPT ![starts + 1] = [AsrIdle EXCEPT !.pc = "loop"]]
  /\ tts' = [tts EXCEPT ![starts + 1] = [TtsIdle EXCEPT !.pc = "loop"]]
  /\ starts' = starts + 1
  /\ btn_running' = TRUE
  /\ cpc' = "idle"
  /\ UNCHANGED << model_loaded, rec_dirty, stop_event, stream_in, open_streams,
                  audio_q, phrase_q, engine_cfg, segment, nframes, nphrases,
                  stops_begun, stops_returned >>
  /\ UNCHANGED << heard, one_shot, pending, txt >>

\* App.stop -> stop(): stop_event.set().  The Stop button is enabled only
\* while btn_running is TRUE.
StopSet ==
  /\ cpc = "idle"
  /\ btn_running
  /\ stop_event' = TRUE
  /\ stops_begun' = stops_begun + 1
  /\ cpc' = "stop_drain"
  /\ UNCHANGED << model_loaded, rec_dirty, stream_in, open_streams, audio_q,
                  phrase_q, engine_cfg, segment, btn_running, asr, tts, starts,
                  nframes, nphrases, stops_returned >>
  /\ UNCHANGED << heard, one_shot, pending, txt >>

\* A single get_nowait() in place of the loop.
Drained_once(q) == IF q = << >> THEN q ELSE Tail(q)

\* What the get_nowait loop of stop() leaves in a queue.
Drained(q) == << >>

\* stop(): self.stop_input(), then both queues are emptied.
StopDrain ==
  /\ cpc = "stop_drain"
  /\ stop_input
  /\ audio_q' = Drained(audio_q)
  /\ phrase_q' = Drained(phrase_q)
  /\ cpc' = "stop_return"
  /\ UNCHANGED << model_loaded, rec_dirty, stop_event, engine_cfg, segment,
                  btn_running, asr, tts, history >>
  /\ UNCHANGED << heard, one_shot, pending, txt >>

\* stop() returns to App.stop, which flips the buttons back.
StopReturn ==
  /\ cpc = "stop_return"
  /\ stops_returned' = stops_returned + 1
  /\ btn_running' = FALSE
  /\ cpc' = "idle"
  /\ UNCHANGED << model_loaded, rec_dirty, stop_event, stream_in, open_streams,
                  audio_q, phrase_q, engine_cfg, segment, asr, tts, starts,
                  nframes, nphrases, stops_begun >>
  /\ UNCHANGED << heard, one_shot, pending, txt >>

\* ----------------------------------------------- one-shot text to voice
\* Everything of the engine and of the live threads, which the one-shot
\* thread neither reads nor writes.
live ==
  << model_loaded, rec_dirty, stop_event, stream_in, open_streams, audio_q,
     phrase_q, engine_cfg, segment, cpc, btn_running, asr, tts, history, heard,
     pending, txt >>

\* generate_and_play_tts ("panel") or test_tts ("test") is clicked and its
\* thread started; one such thread is followed at a time.  The panel's thread
\* returns at once without ffmpeg; the test checks ffmpeg after its synthesis.
OneShotClick ==
  /\ one_shot.pc = "none"
  /\ \E kind \in {"panel", "test"} :
       one_shot' = IF kind = "panel" /\ ~ffmpeg_available
                   THEN OneShotIdle
                   ELSE [pc |-> "synth", kind |-> kind]
  /\ UNCHANGED live

\* The thread's synthesis (_tts_with_retries for the panel, one
\* Communicate.save for the test) and decoding: on success it goes on to
\* play, any exception is logged and ends the thread.
OneShotSynth ==
  /\ one_shot.pc = "synth"
  /\ \E ok \in BOOLEAN :
       one_shot' = IF ok /\ ffmpeg_available
                   THEN [one_shot EXCEPT !.pc = "play"]
                   ELSE OneShotIdle
  /\ UNCHANGED live

\* sd.play(..., blocking=True) returns and the thread ends.
OneShotPlay ==
  /\ one_shot.pc = "play"
  /\ one_shot' = OneShotIdle
  /\ UNCHANGED live

OneShot ==
  \/ OneShotClick
  \/ OneShotSynth
  \/ OneShotPlay

\* ---------------------------------------- the engine called directly
\* Where the caller of load_model(), start() and stop() is between two calls;
\* "start_raised" is start() having raised "Modelo Vosk no cargado.".
Callable == {"idle", "start_raised"}

\* load_model(): Model() or KaldiRecognizer() may raise, and then the engine
\* has no recognizer; otherwise it has a new one.
EngineLoad ==
  /\ cpc \in Callable
  /\ \E ok \in BOOLEAN :
       IF ok
       THEN model_loaded' = TRUE /\ rec_dirty' = FALSE
       ELSE UNCHANGED << model_loaded, rec_dirty >>
  /\ cpc' = "idle"
  /\ UNCHANGED << stop_event, stream_in, open_streams, audio_q, phrase_q,
                  engine_cfg, segment, btn_running, asr, tts, history >>
  /\ UNCHANGED << heard, one_shot, pending, txt >>

\* The caller assigns the public attribute ducking of an engine it has not
\* started yet (App.start assigns True; the constructor's default is True).
SetDucking ==
  /\ cpc \in Callable
  /\ starts = 0
  /\ \E d \in BOOLEAN : ducking' = d
  /\ UNCHANGED << model_loaded, rec_dirty, stop_event, stream_in, open_streams,
                  audio_q, phrase_q, ffmpeg_available, segment, cpc,
                  btn_running, asr, tts, history >>
  /\ UNCHANGED << heard, one_shot, pending, txt >>

\* start() clearing stop_event before it looks at the model.
EngineStart_clears_first(limit) ==
  /\ cpc \in Callable
  /\ starts < limit
  /\ stop_event' = FALSE
  /\ cpc' = IF model_loaded THEN "start_input" ELSE "start_raised"
  /\ UNCHANGED << model_loaded, rec_dirty, stream_in, open_streams, audio_q,
                  phrase_q, engine_cfg, segment, btn_running, asr, tts, history >>
  /\ UNCHANGED << heard, one_shot, pending, txt >>

\* start() up to stop_event.clear(): without a model or a recognizer it
\* raises at once.  At most limit calls go past the check.
EngineStart(limit) ==
  /\ cpc \in Callable
  /\ starts < limit
  /\ IF model_loaded
     THEN stop_event' = FALSE /\ cpc' = "start_input"
     ELSE UNCHANGED stop_event /\ cpc' = "start_raised"
  /\ UNCHANGED << model_loaded, rec_dirty, stream_in, open_streams, audio_q,
                  phrase_q, engine_cfg, segment, btn_running, asr, tts, history >>
  /\ UNCHANGED << heard, one_shot, pending, txt >>

\* stop(): stop_event.set(), whatever the engine is doing.  At most limit calls.
EngineStop(limit) ==
  /\ cpc \in Callable
  /\ stops_begun < limit
  /\ stop_event' = TRUE
  /\ stops_begun' = stops_begun + 1
  /\ cpc' = "stop_drain"
  /\ UNCHANGED << model_loaded, rec_dirty, stream_in, open_streams, audio_q,
                  phrase_q, engine_cfg, segment, btn_running, asr, tts, starts,
                  nframes, nphrases, stops_returned >>
  /\ UNCHANGED << heard, one_shot, pending, txt >>

\* ------------------------------------------- segmentation (ASR worker)
\* App.on_final(text), called with the queue q in the state it has then:
\* one more line in the transcript.  queued tells whether phrase number n
\* was on q already.
on_final(q, n) ==
  txt' = [lines |-> txt.lines + 1,
          queued |-> \E k \in 1..Len(q) : q[k].id = n]

\* _emit_phrase without its length test.
emit_phrase_unchecked(text) ==
  /\ on_final(phrase_q, nphrases + 1)
  /\ phrase_q' = Append(phrase_q,
                   [id |-> nphrases + 1, text |-> text, born |-> stops_begun])
  /\ nphrases' = nphrases + 1

\* _emit_phrase calling on_final before its length test.
emit_phrase_tells_first(text) ==
  /\ on_final(phrase_q, nphrases + 1)
  /\ IF Len(text) < min_phrase_len
     THEN UNCHANGED << phrase_q, nphrases >>
     ELSE /\ phrase_q' = Append(phrase_q,
                           [id |-> nphrases + 1, text |-> text, born |-> stops_begun])
          /\ nphrases' = nphrases + 1

\* _emit_phrase(text): too short a text is dropped; for any other on_final
\* is called and then the text is put on phrase_q.
emit_phrase(text) ==
  IF Len(text) < min_phrase_len
  THEN UNCHANGED << phrase_q, nphrases, txt >>
  ELSE /\ on_final(phrase_q, nphrases + 1)
       /\ phrase_q' = Append(phrase_q,
                        [id |-> nphrases + 1, text |-> text, born |-> stops_begun])
       /\ nphrases' = nphrases + 1

\* _reset_partials without the line that clears _speech_seen_this_segment.
reset_partials_keeps_speech ==
  /\ last_partial' = << >>
  /\ since_activity' = 0
  /\ UNCHANGED speech_seen

\* _reset_partials(): _last_partial_time is not touched.
reset_partials ==
  /\ last_partial' = << >>
  /\ speech_seen' = FALSE
  /\ since_activity' = 0

\* What FinalResult() can say: nothing but "" when no audio is pending.
FinalTexts(dirty) == IF dirty THEN RawTexts ELSE { << >> }

\* A test of _finalize_by_silence that never passes.
SilenceDue_never == FALSE

\* The test of _finalize_by_silence without its time condition.
SilenceDue_any_time == speech_seen

\* The test of _finalize_by_silence: speech was seen and nothing was heard
\* for silence_finalize_sec.
SilenceDue == speech_seen /\ since_activity >= silence_finalize_sec

\* _finalize_by_silence throwing the final text away.
finalize_by_silence_mute(dirty, raw) ==
  IF SilenceDue
  THEN /\ UNCHANGED << phrase_q, nphrases, txt >>
       /\ reset_partials
       /\ rec_dirty' = FALSE
  ELSE /\ UNCHANGED << phrase_q, nphrases, txt, last_partial, speech_seen,
                       since_activity >>
       /\ rec_dirty' = dirty

\* _finalize_by_silence(), the recognizer holding pending audio or not (dirty)
\* and answering raw if FinalResult() is called.
finalize_by_silence(dirty, raw) ==
  IF SilenceDue
  THEN /\ IF Strip(raw) # << >>
          THEN emit_phrase(Strip(raw))
          ELSE UNCHANGED << phrase_q, nphrases, txt >>
       /\ reset_partials
       /\ rec_dirty' = FALSE
  ELSE /\ UNCHANGED << phrase_q, nphrases, txt, last_partial, speech_seen,
                       since_activity >>
       /\ rec_dirty' = dirty

\* The number of the phrase the step put on phrase_q, 0 if it put none.
Put == IF nphrases' # nphrases THEN nphrases' ELSE 0

\* What is seen of a step that ran the silence check.
Checked == [NoHeard EXCEPT !.asked = SilenceDue, !.put = Put]

\* The lines after the loop of asr_worker: FinalResult() says raw, and its
\* stripped text is emitted if not empty.
shutdown_flush(raw) ==
  IF Strip(raw) # << >>
  THEN emit_phrase(Strip(raw))
  ELSE UNCHANGED << phrase_q, nphrases, txt >>

\* One pass of "while not self.stop_event.is_set()" up to the frame:
\* audio_q.get(timeout=0.2) gives a frame, or queue.Empty and the silence check.
\* Once stop_event is set the loop is left: FinalResult() once more, its text
\* emitted if not empty, and the thread ends.
AsrLoop(w) ==
  /\ asr[w].pc = "loop"
  /\ IF stop_event
     THEN /\ \E raw \in FinalTexts(rec_dirty) : shutdown_flush(raw)
          /\ asr' = [asr EXCEPT ![w].pc = "done"]
          /\ heard' = [NoHeard EXCEPT !.flush = TRUE, !.put = Put]
          /\ rec_dirty' = FALSE
          /\ UNCHANGED << audio_q, last_partial, speech_seen, since_activity >>
     ELSE IF audio_q # << >>
     THEN /\ asr' = [asr EXCEPT ![w] = [pc |-> "feed", inbuf |-> Head(audio_q)]]
          /\ audio_q' = Tail(audio_q)
          /\ heard' = NoHeard
          /\ UNCHANGED << rec_dirty, phrase_q, nphrases, txt, last_partial,
                          speech_seen, since_activity >>
     ELSE /\ \E raw \in FinalTexts(rec_dirty) : finalize_by_silence(rec_dirty, raw)
          /\ heard' = Checked
          /\ UNCHANGED << asr, audio_q >>
  /\ UNCHANGED << model_loaded, stop_event, stream_in, open_streams, engine_cfg,
                  since_partial, cpc, btn_running, tts, starts, nframes,
                  stops_begun, stops_returned >>
  /\ UNCHANGED << one_shot, pending >>

\* The condition of on_partial without its time test.
Surfaces_any_time(partial) ==
  /\ print_partials
  /\ partial # last_partial

\* The throttle of on_partial: the text changed and partial_throttle_sec passed.
Surfaces(partial) ==
  /\ print_partials
  /\ partial # last_partial
  /\ since_partial >= partial_throttle_sec


\* The branch of a recognizer final leaving the segment fields alone.
accept_final_keeps_segment(raw) ==
  /\ IF Strip(raw) # << >>
     THEN emit_phrase(Strip(raw))
     ELSE UNCHANGED << phrase_q, nphrases, txt >>
  /\ UNCHANGED << last_partial, speech_seen, since_activity >>
  /\ rec_dirty' = FALSE

\* AcceptWaveform() returned true and Result() says raw: its stripped text
\* is emitted if not empty, and the segment is reset either way.
accept_final(raw) ==
  /\ IF Strip(raw) # << >>
     THEN emit_phrase(Strip(raw))
     ELSE UNCHANGED << phrase_q, nphrases, txt >>
  /\ reset_partials
  /\ rec_dirty' = FALSE

\* AcceptWaveform(inbytes) and the two branches that follow it.
AsrFeed(w) ==
  /\ asr[w].pc = "feed"
  /\ asr' = [asr EXCEPT ![w] = [AsrIdle EXCEPT !.pc = "loop"]]
  /\ \E final \in BOOLEAN, raw \in RawTexts, partial \in Partials :
       IF final
       THEN /\ accept_final(raw)
            /\ heard' = [NoHeard EXCEPT !.final = TRUE, !.put = Put]
            /\ UNCHANGED since_partial
       ELSE IF partial # << >>
       THEN /\ speech_seen' = TRUE
            /\ since_activity' = 0
            /\ IF Surfaces(partial)
               THEN last_partial' = partial /\ since_partial' = 0
               ELSE UNCHANGED << last_partial, since_partial >>
            /\ rec_dirty' = TRUE
            /\ UNCHANGED << phrase_q, nphrases, txt >>
            /\ heard' = [NoHeard EXCEPT !.got = partial, !.shown = Surfaces(partial)]
       ELSE /\ finalize_by_silence(TRUE, raw)
            /\ heard' = Checked
            /\ UNCHANGED since_partial
  /\ UNCHANGED << model_loaded, stop_event, stream_in, open_streams, audio_q,
                  engine_cfg, cpc, btn_running, tts, starts, nframes,
                  stops_begun, stops_returned >>
  /\ UNCHANGED << one_shot, pending >>

\* --------------------------------------- synthesis and playback (TTS worker)
\* What the synthesizer answers to the calls made for one phrase: answers[n] is
\* TRUE when call number n returns audio, FALSE when it raises.
Answers == [1..tts_max_retries -> BOOLEAN]

NoCalls == [calls |-> 0, clips |-> 0, retry_logs |-> 0, slept |-> 0, raised |-> FALSE]

\* The for loop without its "return": it goes on after an answer.
RECURSIVE tts_retry_no_return(_, _, _)
tts_retry_no_return(n, answers, r) ==
  IF n > tts_max_retries
  THEN r
  ELSE IF answers[n]
  THEN tts_retry_no_return(n + 1, answers,
         [r EXCEPT !.calls = r.calls + 1, !.clips = r.clips + 1])
  ELSE tts_retry_no_return(n + 1, answers,
         [r EXCEPT !.calls = r.calls + 1,
                   !.retry_logs = r.retry_logs + 1,
                   !.slept = r.slept + tts_backoff * n])

\* The for loop without the "raise" that follows it.
RECURSIVE tts_retry_no_raise(_, _, _)
tts_retry_no_raise(n, answers, r) ==
  IF n > tts_max_retries
  THEN r
  ELSE IF answers[n]
  THEN [r EXCEPT !.calls = r.calls + 1, !.clips = r.clips + 1]
  ELSE tts_retry_no_raise(n + 1, answers,
         [r EXCEPT !.calls = r.calls + 1,
                   !.retry_logs = r.retry_logs + 1,
                   !.slept = r.slept + tts_backoff * n])

\* The for loop of _tts_with_retries from attempt n on: return at the first
\* answer, log and sleep tts_backoff * n after a failure, raise after the last.
RECURSIVE tts_retry_from(_, _, _)
tts_retry_from(n, answers, r) ==
  IF n > tts_max_retries
  THEN [r EXCEPT !.raised = TRUE]
  ELSE IF answers[n]
  THEN [r EXCEPT !.calls = r.calls + 1, !.clips = r.clips + 1]
  ELSE tts_retry_from(n + 1, answers,
         [r EXCEPT !.calls = r.calls + 1,
                   !.retry_logs = r.retry_logs + 1,
                   !.slept = r.slept + tts_backoff * n])

\* _tts_with_retries(text, mp3_path)
tts_with_retries(answers) == tts_retry_from(1, answers, NoCalls)

\* One pass of "while not self.stop_event.is_set()" up to the try block:
\* phrase_q.get(timeout=0.2) gives a phrase (queue.Empty changes nothing, an
\* empty phrase is skipped); then ducking, and the FFmpeg check inside try
\* (its continue still runs the finally clause).  Once stop_event is set the
\* thread ends.
\* phrase_q.get() without removing the phrase it returns.
get_rest_peek(q) == q

\* What phrase_q.get() leaves on the queue.
get_rest(q) == Tail(q)

\* The FFmpeg test left out: the block goes on to the synthesizer.
ffmpeg_check_skipped(available) == "synth"

\* "if not self.ffmpeg_available: ... continue": where the block goes next.
ffmpeg_check(available) == IF available THEN "synth" ELSE "finally"

TtsLoop(w) ==
  /\ tts[w].pc = "loop"
  /\ IF stop_event
     THEN /\ tts' = [tts EXCEPT ![w].pc = "done"]
          /\ UNCHANGED << phrase_q, stream_in, open_streams >>
     ELSE /\ phrase_q # << >>
          /\ phrase_q' = get_rest(phrase_q)
          /\ IF Head(phrase_q).text = << >>
             THEN UNCHANGED << tts, stream_in, open_streams >>
             ELSE /\ IF ducking THEN stop_input
                                ELSE UNCHANGED << stream_in, open_streams >>
                  /\ tts' = [tts EXCEPT ![w] =
                               [tts[w] EXCEPT
                                  !.pc = ffmpeg_check(ffmpeg_available),
                                  !.error_logs = IF ffmpeg_available THEN 0 ELSE 1,
                                  !.text = Head(phrase_q),
                                  !.stops_at_take = stops_begun]]
  /\ UNCHANGED << model_loaded, rec_dirty, stop_event, audio_q, engine_cfg,
                  segment, cpc, btn_running, asr, history >>
  /\ UNCHANGED << heard, one_shot, pending, txt >>

\* _tts_with_retries, then AudioSegment.from_file, normalize and the .wav export
\* (the .wav is not tracked).  RuntimeError after the last attempt, or a decode
\* error, goes to the except clause, which logs it.  Otherwise _play_segment
\* starts: the clip plays while pc = "play".  Time passes while it sleeps.
TtsSynth(w) ==
  /\ tts[w].pc = "synth"
  /\ \E answers \in Answers, decode_ok \in BOOLEAN :
       LET r == tts_with_retries(answers)
           t == [tts[w] EXCEPT !.calls = r.calls, !.clips = r.clips,
                               !.retry_logs = r.retry_logs, !.slept = r.slept,
                               !.answers = answers]
       IN /\ tts' = [tts EXCEPT ![w] =
                       IF r.raised
                       THEN [t EXCEPT !.pc = "finally", !.error_logs = t.error_logs + 1]
                       ELSE IF decode_ok
                       THEN [t EXCEPT !.pc = "play", !.mp3 = TRUE]
                       ELSE [t EXCEPT !.pc = "finally", !.mp3 = TRUE,
                                      !.error_logs = t.error_logs + 1]]
          /\ since_partial' = Advance(since_partial, r.slept, partial_throttle_sec)
          /\ since_activity' = Advance(since_activity, r.slept, silence_finalize_sec)
  /\ UNCHANGED << model_loaded, rec_dirty, stop_event, stream_in, open_streams,
                  audio_q, phrase_q, engine_cfg, last_partial, speech_seen, cpc,
                  btn_running, asr, history >>
  /\ UNCHANGED << heard, one_shot, pending, txt >>

\* An except clause that gives the engine up.
except_clause_stops == stop_event' = TRUE

\* "except Exception as e" of tts_worker: the error is logged, no more.
except_clause == UNCHANGED stop_event

\* sd.play(..., blocking=True) returns or raises; after a clean return the raw
\* .mp3 is removed unless keep_mp3.
TtsPlay(w) ==
  /\ tts[w].pc = "play"
  /\ \E ok \in BOOLEAN :
       /\ tts' = IF ok
                 THEN [tts EXCEPT ![w].pc = "finally",
                                  ![w].plays = tts[w].plays + 1,
                                  ![w].mp3 = IF keep_mp3 THEN tts[w].mp3 ELSE FALSE]
                 ELSE [tts EXCEPT ![w].pc = "finally",
                                  ![w].error_logs = tts[w].error_logs + 1]
       /\ IF ok THEN UNCHANGED stop_event ELSE except_clause
  /\ UNCHANGED << model_loaded, rec_dirty, stream_in, open_streams,
                  audio_q, phrase_q, engine_cfg, segment, cpc, btn_running, asr,
                  history >>
  /\ UNCHANGED << heard, one_shot, pending, txt >>

\* The block over, with a failed phrase ending the thread.
BlockOver_dies_on_error(t) ==
  [TtsIdle EXCEPT !.pc = IF t.error_logs > 0 THEN "done" ELSE "loop",
                  !.failed_before = t.failed_before \/ t.error_logs > 0]

\* The thread's record once the per-phrase block is over.
BlockOver(t) ==
  [TtsIdle EXCEPT !.pc = "loop",
                  !.failed_before = t.failed_before \/ t.error_logs > 0]

\* The finally clause without its stop_event test.
TtsFinally_ignores_stop(w) ==
  /\ tts[w].pc = "finally"
  /\ tts' = IF ducking
            THEN [tts EXCEPT ![w].pc = "resume"]
            ELSE [tts EXCEPT ![w] = BlockOver(tts[w])]
  /\ UNCHANGED << model_loaded, rec_dirty, stop_event, stream_in, open_streams,
                  audio_q, phrase_q, engine_cfg, segment, cpc, btn_running, asr,
                  history >>
  /\ UNCHANGED << heard, one_shot, pending, txt >>

\* The finally clause without its ducking test.
TtsFinally_always_resumes(w) ==
  /\ tts[w].pc = "finally"
  /\ tts' = IF ~stop_event
            THEN [tts EXCEPT ![w].pc = "resume"]
            ELSE [tts EXCEPT ![w] = BlockOver(tts[w])]
  /\ UNCHANGED << model_loaded, rec_dirty, stop_event, stream_in, open_streams,
                  audio_q, phrase_q, engine_cfg, segment, cpc, btn_running, asr,
                  history >>
  /\ UNCHANGED << heard, one_shot, pending, txt >>

\* finally: if self.ducking and not self.stop_event.is_set()
TtsFinally(w) ==
  /\ tts[w].pc = "finally"
  /\ tts' = IF ducking /\ ~stop_event
            THEN [tts EXCEPT ![w].pc = "resume"]
            ELSE [tts EXCEPT ![w] = BlockOver(tts[w])]
  /\ UNCHANGED << model_loaded, rec_dirty, stop_event, stream_in, open_streams,
                  audio_q, phrase_q, engine_cfg, segment, cpc, btn_running, asr,
                  history >>
  /\ UNCHANGED << heard, one_shot, pending, txt >>

\* finally: self.start_input(), its exception logged and swallowed.
TtsResume(w) ==
  /\ tts[w].pc = "resume"
  /\ \E ok \in BOOLEAN : start_input(ok)
  /\ tts' = [tts EXCEPT ![w] = BlockOver(tts[w])]
  /\ UNCHANGED << model_loaded, rec_dirty, stop_event, audio_q, phrase_q,
                  engine_cfg, segment, cpc, btn_running, asr, history >>
  /\ UNCHANGED << heard, one_shot, pending, txt >>

\* ------------------------------------------------------- specification
Capture ==
  \/ AudioCallback(MaxFrames)
  \/ Tick(silence_finalize_sec)

AsrWorker ==
  \/ \E w \in Workers : AsrLoop(w)
  \/ \E w \in Workers : AsrFeed(w)

TtsWorker ==
  \/ \E w \in Workers : TtsLoop(w)
  \/ \E w \in Workers : TtsSynth(w)
  \/ \E w \in Workers : TtsPlay(w)
  \/ \E w \in Workers : TtsFinally(w)
  \/ \E w \in Workers : TtsResume(w)

Stop ==
  \/ StopSet
  \/ StopDrain
  \/ StopReturn

\* Start and Stop pressed in turn, up to MaxStarts sessions.
Next ==
  \/ AppStart(MaxStarts)
  \/ StartInput
  \/ StartSpawn
  \/ Stop
  \/ Capture
  \/ AsrWorker
  \/ TtsWorker

Spec == Init /\ [][Next]_vars

\* One session: Start pressed once, Stop pressed at any time after it.
NextSession ==
  \/ AppStart(1)
  \/ StartInput
  \/ StartSpawn
  \/ Stop
  \/ Capture
  \/ AsrWorker
  \/ TtsWorker

SpecSession == Init /\ [][NextSession]_vars

\* One session in which Stop is never pressed; every thread that can take a
\* step eventually takes one.
NextLive ==
  \/ AppStart(1)
  \/ StartInput
  \/ StartSpawn
  \/ Capture
  \/ AsrWorker
  \/ TtsWorker

SpecLive ==
  /\ Init
  /\ [][NextLive]_vars
  /\ \A w \in Workers :
       /\ WF_vars(TtsLoop(w))
       /\ WF_vars(TtsSynth(w))
       /\ WF_vars(TtsPlay(w))
       /\ WF_vars(TtsFinally(w))
       /\ WF_vars(TtsResume(w))

\* One session as in SpecSession, on a finer clock: time also passes one
\* queue poll (queue_timeout) at a time.
NextSegment ==
  \/ NextSession
  \/ Tick(queue_timeout)

SpecSegment == Init /\ [][NextSegment]_vars

\* One session without Stop on the finer clock, in which the ASR thread as
\* well as the TTS thread keeps running.
NextListen ==
  \/ NextLive
  \/ Tick(queue_timeout)

SpecListen ==
  /\ Init
  /\ [][NextListen]_vars
  /\ \A w \in Workers :
       /\ WF_vars(AsrLoop(w))
       /\ WF_vars(AsrFeed(w))
       /\ WF_vars(TtsLoop(w))
       /\ WF_vars(TtsSynth(w))
       /\ WF_vars(TtsPlay(w))
       /\ WF_vars(TtsFinally(w))
       /\ WF_vars(TtsResume(w))

\* SpecListen with the wall clock going on: time passes as long as an
\* elapsed time the engine compares has not reached its threshold.
SpecClock ==
  /\ Init
  /\ [][NextListen]_vars
  /\ WF_vars(Tick(queue_timeout))
  /\ \A w \in Workers :
       /\ WF_vars(AsrLoop(w))
       /\ WF_vars(AsrFeed(w))
       /\ WF_vars(TtsLoop(w))
       /\ WF_vars(TtsSynth(w))
       /\ WF_vars(TtsPlay(w))
       /\ WF_vars(TtsFinally(w))
       /\ WF_vars(TtsResume(w))

\* The engine driven through load_model(), start() and stop() directly, in any
\* order: one start() past the model check, stop() up to MaxStarts times.
NextApi ==
  \/ EngineLoad
  \/ EngineStart(1)
  \/ EngineStop(MaxStarts)
  \/ StartInput
  \/ StartSpawn
  \/ StopDrain
  \/ StopReturn
  \/ Capture
  \/ AsrWorker
  \/ TtsWorker

SpecApi == Init /\ [][NextApi]_vars

\* The engine called directly by a caller that chooses ducking before the
\* one start() and calls stop() once.
NextDucking ==
  \/ SetDucking
  \/ EngineLoad
  \/ EngineStart(1)
  \/ EngineStop(1)
  \/ StartInput
  \/ StartSpawn
  \/ StopDrain
  \/ StopReturn
  \/ Capture
  \/ AsrWorker
  \/ TtsWorker

SpecDucking == Init /\ [][NextDucking]_vars

\* start() called again on a running engine: up to MaxStarts calls, no stop().
NextRestart ==
  \/ EngineLoad
  \/ EngineStart(MaxStarts)
  \/ StartInput
  \/ StartSpawn
  \/ Capture
  \/ AsrWorker
  \/ TtsWorker

SpecRestart == Init /\ [][NextRestart]_vars

\* One session with the Text-to-Voice panel and the TTS test in use.
NextPanel ==
  \/ NextSession
  \/ OneShot

SpecPanel == Init /\ [][NextPanel]_vars

\* Frames that may pass the gate in a burst: enough to fill audio_q and to
\* block the callback, and one more.
BurstFrames == audio_q_maxsize + 2

\* One session in which the device delivers a burst of frames.  The ASR
\* thread takes a frame off audio_q and is busy in AcceptWaveform for the
\* rest of the burst, or exits on stop_event; a blocked put() or a waiting
\* stop() goes on as soon as it can.
NextBurst ==
  \/ AppStart(1)
  \/ StartInput
  \/ StartSpawn
  \/ Stop
  \/ AudioCallback(BurstFrames)
  \/ CallbackPut
  \/ \E w \in Workers : AsrLoop(w)

SpecBurst ==
  /\ Init
  /\ [][NextBurst]_vars
  /\ WF_vars(CallbackPut)
  /\ WF_vars(StopDrain)
  /\ WF_vars(StopReturn)
  /\ \A w \in Workers : WF_vars(AsrLoop(w))

\* ------------------------------------------------------------ properties
\* A TTS thread is inside its per-phrase block (between ducking and the end
\* of the finally clause).
InBlock(w) == tts[w].pc \in {"synth", "play", "finally", "resume"}

\* The thread w took the step.
TtsStep(w) == tts'[w] # tts[w]

\* The step opened a capture stream and stored its handle.
Opened == open_streams' # open_streams /\ stream_in' \in open_streams'

\* C1: with ducking enabled the capture stream is never open (stream_in set)
\* while a TTS thread is playing a synthesized clip.
C1_DuckingExclusion ==
  ducking => \A w \in Workers : tts[w].pc = "play" => stream_in = NoStream

\* The per-phrase block is entered when a phrase is taken and left only
\* through its finally clause.
BlockPath(w) ==
  /\ (tts[w].pc = "loop" /\ tts'[w].text # NoPhrase) => tts'[w].pc \in {"synth", "finally"}
  /\ (tts[w].pc = "synth" /\ TtsStep(w)) => tts'[w].pc \in {"play", "finally"}
  /\ (tts[w].pc = "play" /\ TtsStep(w)) => tts'[w].pc = "finally"
  /\ (tts[w].pc = "finally" /\ TtsStep(w)) =>
       IF stop_event
       THEN tts'[w].pc = "loop" /\ UNCHANGED << stream_in, open_streams >>
       ELSE tts'[w].pc = "resume"

\* C2 as stated: on every exit path of the per-phrase block the finally clause
\* runs; capture is restarted if stop_event is not set at that point and is
\* not restarted if it is set.
C2_AlwaysRestarted ==
  [][\A w \in Workers :
       /\ BlockPath(w)
       /\ (tts[w].pc = "resume" /\ TtsStep(w)) => Opened]_vars

\* C2, amended: on every exit path of the per-phrase block the finally clause
\* runs; start_input() is called if stop_event is not set at that point, and
\* capture is then open unless the device refuses the new stream, which
\* leaves the handle as it was; start_input() is not called if stop_event is set.
C2_RestartAttempted ==
  [][\A w \in Workers :
       /\ BlockPath(w)
       /\ (tts[w].pc = "resume" /\ TtsStep(w)) =>
            Opened \/ UNCHANGED << stream_in, open_streams >>]_vars

\* C2 witness: after all retries failed, with stop_event clear, the thread is
\* about to restart capture.
C2_Witness ==
  \E w \in Workers :
    /\ tts[w].pc = "resume"
    /\ tts[w].retry_logs = tts_max_retries
    /\ ~stop_event
    /\ stream_in = NoStream

\* C3: at most one TTS thread is inside its per-phrase block at any time.
C3_Serialized == Cardinality({w \in Workers : InBlock(w)}) <= 1

\* C4: every phrase on phrase_q, and every phrase a TTS thread holds, has at
\* least min_phrase_len characters.
C4_MinPhraseLen ==
  /\ \A i \in 1..Len(phrase_q) : Len(phrase_q[i].text) >= min_phrase_len
  /\ \A w \in Workers :
       tts[w].text # NoPhrase => Len(tts[w].text.text) >= min_phrase_len

\* C4 witness: a phrase of exactly min_phrase_len characters, cut out of a
\* longer recognizer text by strip(), is on the queue.
C4_Witness ==
  \E i \in 1..Len(phrase_q) : Len(phrase_q[i].text) = min_phrase_len

\* C5: when stop() is called after a phrase was dequeued and before its block
\* ends, the block is not interrupted and does not resume capture.
C5_NoResumeAfterStop ==
  [][\A w \in Workers :
       /\ (InBlock(w) /\ TtsStep(w)) => tts'[w].pc # "done"
       /\ (tts[w].pc = "resume" /\ TtsStep(w) /\ stops_begun > tts[w].stops_at_take)
            => UNCHANGED << stream_in, open_streams >>]_vars

\* C6: when stop() returns, audio_q and phrase_q are both empty.
C6_QueuesEmptyAfterStop ==
  [][(cpc = "stop_return" /\ cpc' = "idle") =>
       (audio_q' = << >> /\ phrase_q' = << >>)]_vars

\* C7: no frame captured before a stop() call is fed to the recognizer, and
\* no phrase emitted before a stop() call is synthesized or played, once that
\* stop() has returned.
C7_NoStaleData ==
  [][\A w \in Workers :
       /\ (asr[w].pc = "feed" /\ asr'[w] # asr[w])
            => asr[w].inbuf.cap >= stops_returned
       /\ (tts[w].pc \in {"synth", "play"} /\ TtsStep(w))
            => tts[w].text.born >= stops_returned]_vars

\* The first call the synthesizer answers, 0 if it answers none.
FirstAnswer(a) ==
  IF \E k \in DOMAIN a : a[k]
  THEN CHOOSE k \in DOMAIN a : a[k] /\ \A j \in 1..(k - 1) : ~a[j]
  ELSE 0

\* C8: for one phrase at most tts_max_retries synthesizer calls are made; if
\* call k is the first to succeed, exactly k calls are made and exactly one
\* clip is produced.
C8_RetryBound ==
  \A w \in Workers :
    tts[w].answers # << >> =>
      /\ tts[w].calls <= tts_max_retries
      /\ tts[w].clips <= 1
      /\ FirstAnswer(tts[w].answers) # 0 =>
           /\ tts[w].calls = FirstAnswer(tts[w].answers)
           /\ tts[w].clips = 1

\* C8 witness: the second call succeeded after the first failed, and the clip
\* is playing.
C8_Witness ==
  \E w \in Workers :
    /\ tts[w].pc = "play"
    /\ tts[w].answers[1] = FALSE
    /\ tts[w].answers[2] = TRUE
    /\ tts[w].calls = 2

\* The synthesizer failed every call it was given for the phrase in hand.
Exhausted(w) ==
  /\ tts[w].answers # << >>
  /\ \A k \in DOMAIN tts[w].answers : ~tts[w].answers[k]

\* C9 as stated: when the synthesizer fails tts_max_retries times in a row
\* the phrase is not played and the log callback gets exactly one failure
\* message for it.
C9_OneFailureMessage ==
  \A w \in Workers :
    Exhausted(w) =>
      /\ tts[w].pc # "play"
      /\ tts[w].plays = 0
      /\ tts[w].retry_logs + tts[w].error_logs = 1

\* C9, amended: when the synthesizer fails tts_max_retries times in a row the
\* phrase is not played; the log callback gets one "[TTS] Reintento n"
\* message per failed attempt (tts_max_retries of them) and then exactly one
\* "[TTS ERROR]" message for the phrase.
C9_OneErrorMessage ==
  \A w \in Workers :
    Exhausted(w) =>
      /\ tts[w].pc # "play"
      /\ tts[w].plays = 0
      /\ tts[w].clips = 0
      /\ tts[w].retry_logs = tts_max_retries
      /\ tts[w].error_logs = 1

\* C9 witness: a thread stands in its finally clause after every attempt failed.
C9_Witness == \E w \in Workers : Exhausted(w) /\ tts[w].pc = "finally"

\* Phrase number i waits on phrase_q.
Queued(i) == \E k \in 1..Len(phrase_q) : phrase_q[k].id = i

\* A TTS thread holds phrase number i in its per-phrase block.
Handling(i) == \E w \in Workers : InBlock(w) /\ tts[w].text.id = i

\* C10: after a phrase has failed, the thread that failed on it is still
\* running, and every phrase that waits on the queue is taken and its block
\* carried to its end, as long as Stop is not pressed.
C10_FailureIsolated ==
  /\ [](\A w \in Workers : tts[w].failed_before => tts[w].pc # "done")
  /\ \A i \in 1..MaxFrames :
       /\ ((\E w \in Workers : tts[w].failed_before) /\ Queued(i)) ~> Handling(i)
       /\ ((\E w \in Workers : tts[w].failed_before) /\ Handling(i)) ~> ~Handling(i)

\* C10 witness: a thread that failed on an earlier phrase is playing a later one.
C10_Witness ==
  \E w \in Workers : tts[w].failed_before /\ tts[w].pc = "play"

\* The step was an ASR thread dealing with the frame it had taken.
FrameFed == \E w \in Workers : asr[w].pc = "feed" /\ asr'[w].pc = "loop"

\* The step was a silence check that called FinalResult().
Fired == heard' # heard /\ heard'.asked

\* The step put a phrase finalized by the silence timeout on phrase_q.
SilenceEmit ==
  /\ nphrases' = nphrases + 1
  /\ Fired /\ heard'.put = nphrases'
  /\ phrase_q' # << >>
  /\ phrase_q'[Len(phrase_q')].id = nphrases'

\* A silence check that finds speech_seen set and silence_finalize_sec without
\* activity calls FinalResult() and resets the segment; with speech_seen
\* clear, that is until a new non-empty partial, no check calls FinalResult()
\* or emits.
SilenceOnce ==
  /\ \A w \in Workers :
       (AsrLoop(w) /\ ~stop_event /\ audio_q = << >> /\ SilenceDue) => Fired
  /\ Fired =>
       /\ SilenceDue
       /\ ~speech_seen' /\ last_partial' = << >> /\ since_activity' = 0
  /\ ~speech_seen => (~Fired /\ ~SilenceEmit)
  /\ (~speech_seen /\ speech_seen') => (FrameFed /\ heard'.got # << >>)

\* C11 as stated: from speech_seen and silence_finalize_sec without activity
\* the silence check emits exactly one phrase and resets the segment state,
\* and no further check before a new non-empty partial emits or asks the
\* recognizer for a final result.
C11_ExactlyOnePhrase ==
  [][SilenceOnce /\ (Fired => SilenceEmit)]_vars

\* C11, amended: from speech_seen and silence_finalize_sec without activity
\* the silence check asks for the final result once, emits it as one phrase
\* when its stripped text has at least min_phrase_len characters and emits
\* nothing when it is shorter or empty, and resets the segment state; no
\* further check before a new non-empty partial emits or asks again.
C11_AtMostOnePhrase ==
  [][/\ \A raw \in RawTexts :
          (Fired /\ finalize_by_silence(TRUE, raw)) =>
            (SilenceEmit <=> Len(Strip(raw)) >= min_phrase_len)
     /\ Fired => (SilenceEmit \/ UNCHANGED << phrase_q, nphrases >>)
     /\ SilenceOnce]_vars

\* C11 witness: the silence check has just fired, put its phrase on the queue
\* and cleared speech_seen.
C11_Witness ==
  /\ heard.asked
  /\ ~speech_seen
  /\ heard.put # 0
  /\ phrase_q # << >>
  /\ phrase_q[Len(phrase_q)].id = heard.put

\* The step read a non-empty partial from the recognizer.
PartialRead == FrameFed /\ heard'.got # << >>

\* C12: a partial is passed to on_partial only if it differs from the last
\* surfaced partial and partial_throttle_sec has passed since the last one was
\* surfaced (the time since then restarts only when a partial is surfaced, so
\* of two partials within partial_throttle_sec at most one is surfaced);
\* every non-empty partial sets speech_seen and restarts the activity time,
\* surfaced or not.
C12_PartialThrottle ==
  [][/\ (FrameFed /\ heard'.shown) =>
          /\ PartialRead
          /\ heard'.got # last_partial
          /\ since_partial >= partial_throttle_sec
          /\ last_partial' = heard'.got
          /\ since_partial' = 0
     /\ (PartialRead /\ ~heard'.shown) =>
          UNCHANGED << last_partial, since_partial >>
     /\ PartialRead => (speech_seen' /\ since_activity' = 0)
     /\ since_partial' < since_partial => (FrameFed /\ heard'.shown)]_vars

\* C12 witness: a partial that differs from the last surfaced one was read
\* less than partial_throttle_sec after it and was not surfaced; speech_seen
\* and the activity time were updated all the same.
C12_Witness ==
  /\ heard.got # << >>
  /\ heard.got # last_partial
  /\ ~heard.shown
  /\ since_partial > 0
  /\ since_partial < partial_throttle_sec
  /\ speech_seen
  /\ since_activity = 0

\* The latest ASR step fed a frame for which the recognizer reported final,
\* and put phrase number i on phrase_q.
JustFinal(i) == heard.final /\ heard.put = i /\ i # 0

\* How many times phrase number i is on phrase_q or in the hand of a TTS thread.
Copies(i) ==
  Cardinality({k \in 1..Len(phrase_q) : phrase_q[k].id = i})
    + Cardinality({w \in Workers : tts[w].text.id = i})

\* From a recognizer final to the playback: the phrase exists once, reaches
\* the TTS thread, takes one synthesizer call when the first call succeeds,
\* and capture is closed while it is synthesized and played; after the
\* playback the thread goes on to restart capture.
FinalToPlayback ==
  /\ [](\A i \in 1..MaxFrames : Copies(i) <= 1)
  /\ [](\A w \in Workers :
          (tts[w].answers # << >> /\ tts[w].answers[1]) =>
            (tts[w].calls = 1 /\ tts[w].clips = 1))
  /\ [](\A w \in Workers :
          tts[w].pc \in {"synth", "play"} => stream_in = NoStream)
  /\ \A i \in 1..MaxFrames :
       (Queued(i) /\ JustFinal(i)) ~> Handling(i)
  /\ \A w \in Workers : (tts[w].pc = "play") ~> (tts[w].pc = "resume")

\* C13 as stated: when the recognizer reports final for a text of at least
\* min_phrase_len characters, exactly one phrase with that text reaches the
\* synthesis loop, one synthesizer call is made for it when the synthesizer
\* succeeds, and capture is suspended before and resumed after the playback.
C13_FinalPlayedAndResumed ==
  /\ FinalToPlayback
  /\ [][\A w \in Workers : (tts[w].pc = "resume" /\ TtsStep(w)) => Opened]_vars

\* C13, amended: as C13, except that after the playback capture is resumed
\* only if the input device accepts the new stream; if it refuses, capture
\* stays suspended.
C13_FinalPlayedResumeTried ==
  /\ FinalToPlayback
  /\ [][\A w \in Workers :
          (tts[w].pc = "resume" /\ TtsStep(w)) =>
            (Opened \/ UNCHANGED << stream_in, open_streams >>)]_vars

\* C13 witness: the phrase a recognizer final has just produced is being
\* played after a single synthesizer call, with capture closed.
C13_Witness ==
  \E v \in Workers :
    /\ JustFinal(tts[v].text.id)
    /\ tts[v].pc = "play"
    /\ tts[v].calls = 1
    /\ stream_in = NoStream

\* The step fed a frame for which the recognizer reported final.
FinalRead == FrameFed /\ heard'.final

\* After non-empty partials and silence_finalize_sec without activity the
\* silence is ended by the ASR thread, and unless a new partial or a
\* recognizer final ends it, it is a silence check calling FinalResult()
\* that does.
SilenceTimesOut ==
  /\ SilenceDue ~> ~SilenceDue
  /\ [][(SilenceDue /\ ~SilenceDue') =>
          (Fired \/ PartialRead \/ FinalRead)]_vars

\* C14 as stated: when non-empty partials are followed by silence_finalize_sec
\* without activity and the recognizer never reports final, the silence
\* timeout forces the recognizer's final result and emits it as a phrase.
C14_SilenceEmits ==
  /\ SilenceTimesOut
  /\ [][Fired => SilenceEmit]_vars

\* C14, amended: when non-empty partials are followed by silence_finalize_sec
\* without activity and the recognizer never reports final, the silence
\* timeout forces the recognizer's final result, and emits it as a phrase if
\* and only if its stripped text has at least min_phrase_len characters.
C14_SilenceEmitsLongText ==
  /\ SilenceTimesOut
  /\ [][\A raw \in RawTexts :
          (Fired /\ finalize_by_silence(TRUE, raw)) =>
            (SilenceEmit <=> Len(Strip(raw)) >= min_phrase_len)]_vars

\* C14 witness: with no frame waiting, the poll of the empty queue has run
\* the silence check, which forced the final result and queued it as a phrase.
C14_Witness ==
  /\ heard.asked
  /\ \A w \in Workers : asr[w].inbuf = NoFrame
  /\ audio_q = << >>
  /\ Queued(heard.put)
  /\ rec_dirty = FALSE

\* C15: phrases wait on phrase_q in the order of their emission, a phrase in
\* the hand of a TTS thread was emitted before every phrase that waits, and
\* no phrase is played while one emitted before it is still being synthesized.
C15_OrderPreserved ==
  /\ \A k \in 1..(Len(phrase_q) - 1) : phrase_q[k].id < phrase_q[k + 1].id
  /\ \A w \in Workers, k \in 1..Len(phrase_q) :
       tts[w].text # NoPhrase => tts[w].text.id < phrase_q[k].id
  /\ \A w \in Workers, v \in Workers :
       (tts[w].pc = "synth" /\ tts[v].pc = "play") =>
         tts[w].text.id > tts[v].text.id

\* The step took phrase number i off phrase_q into the hand of a TTS thread.
Dequeued(i) ==
  /\ Queued(i) /\ ~Queued(i)'
  /\ \E w \in Workers :
       tts[w].pc = "loop" /\ tts'[w].pc # "loop" /\ tts'[w].text.id = i

\* C16: without stop(), every phrase put on phrase_q is dequeued by a TTS
\* thread exactly once: it is put on the queue once, under a fresh number,
\* it leaves the queue only into the hand of a TTS thread, a TTS thread gets
\* a phrase only by taking it off the queue, a phrase is never both waiting
\* and in hand nor in two hands, and every waiting phrase is dequeued.
C16_ConsumedOnce ==
  /\ [](\A i \in 1..MaxFrames : Copies(i) <= 1)
  /\ [][\A i \in 1..MaxFrames :
          /\ (~Queued(i) /\ Queued(i)') => (i = nphrases + 1 /\ nphrases' = i)
          /\ (Queued(i) /\ ~Queued(i)') => Dequeued(i)
          /\ (\E w \in Workers : tts'[w].text.id = i /\ tts[w].text.id # i)
               => Dequeued(i)]_vars
  /\ \A i \in 1..MaxFrames : Queued(i) ~> Handling(i)

\* C16 witness: the first phrase has been dequeued and is being played while
\* the second waits on the queue.
C16_Witness ==
  /\ Copies(1) = 1
  /\ \E w \in Workers : tts[w].pc = "play" /\ tts[w].text.id = 1
  /\ Queued(2)
  /\ ~Queued(1)

\* What a call of start() must leave alone when it raises: the capture
\* stream, the threads, the stop signal and both queues.
EngineKept ==
  UNCHANGED << stream_in, open_streams, asr, tts, starts, stop_event,
               audio_q, phrase_q >>

\* C17: start() on an engine without model or recognizer raises, and opens no
\* capture stream, spawns no thread and leaves the stop signal and both
\* queues as they were; no start() goes on to open the stream or to spawn the
\* threads without a recognizer.
C17_StartFailsFast ==
  /\ [][/\ (~model_loaded /\ EngineStart(1)) =>
             (cpc' = "start_raised" /\ EngineKept)
        /\ (cpc # "start_raised" /\ cpc' = "start_raised") =>
             (~model_loaded /\ EngineKept)
        /\ (cpc \in Callable /\ cpc' = "start_input") => model_loaded]_vars
  /\ [](cpc \in {"start_input", "start_spawn"} => model_loaded)

\* C17 witness: start() has raised on an engine that has no recognizer and
\* that stop() had been called on before; the stop signal is still set and
\* nothing was opened or spawned.
C17_Witness ==
  /\ cpc = "start_raised"
  /\ ~model_loaded
  /\ stop_event
  /\ stops_returned = 1
  /\ starts = 0
  /\ stream_in = NoStream
  /\ \A w \in Workers : asr[w].pc = "none" /\ tts[w].pc = "none"

\* The state stop() leaves: stop signal set, no capture stream, both queues
\* empty.
Stopped ==
  stop_event /\ stream_in = NoStream /\ audio_q = << >> /\ phrase_q = << >>

\* C18: stop() runs to its end without raising, whether or not the engine
\* was ever started and whether or not stop() was called before: it sets
\* the stop signal, then closes the stream and empties both queues, then
\* returns; called in the state a stop() has reached (stop signal set, no
\* stream, both queues empty) it changes none of these.
C18_StopIdempotent ==
  [][/\ (cpc \in Callable /\ cpc' = "stop_drain") => stop_event'
     /\ (cpc = "stop_drain" /\ cpc' # cpc) => (cpc' = "stop_return" /\ Stopped')
     /\ (cpc = "stop_return" /\ cpc' # cpc) =>
          (cpc' = "idle" /\ stops_returned' = stops_returned + 1 /\ stop_event')
     /\ ((EngineStop(MaxStarts) \/ StopDrain \/ StopReturn) /\ Stopped) =>
          UNCHANGED << stop_event, stream_in, open_streams, audio_q, phrase_q,
                       asr, tts >>]_vars

\* C18 witness: stop() has returned twice on an engine that was never
\* started, and the state is the one its first call reached.
C18_Witness ==
  /\ stops_returned = 2
  /\ starts = 0
  /\ cpc = "idle"
  /\ Stopped
  /\ open_streams = {}

\* A segmentation or synthesis loop is running.
Running ==
  \E w \in Workers :
    asr[w].pc \notin {"none", "done"} \/ tts[w].pc \notin {"none", "done"}

\* C19: a step that finds no capture stream either opens one or leaves the
\* stream as it is (stopping a stopped capture changes nothing); with a
\* capture stream open no step opens another; and while a loop is running no
\* step launches another ASR or TTS thread.
C19_StartStopIdempotent ==
  [][/\ stream_in = NoStream =>
          (Opened \/ UNCHANGED << stream_in, open_streams >>)
     /\ stream_in # NoStream => ~Opened
     /\ Running =>
          \A w \in Workers :
            /\ asr[w].pc = "none" => asr'[w].pc = "none"
            /\ tts[w].pc = "none" => tts'[w].pc = "none"]_vars

\* C20: the one-shot thread never synthesizes or plays while a TTS thread of
\* the live loop is synthesizing or playing a phrase, and never plays while a
\* capture stream is open.
C20_OneShotSerialized ==
  /\ one_shot.pc \in {"synth", "play"} =>
       \A w \in Workers : tts[w].pc \notin {"synth", "play"}
  /\ one_shot.pc = "play" => open_streams = {}

\* stop() has raised the stop signal since thread pair w was launched: the
\* buttons alternate start() and stop(), and pair w is launched by start()
\* number w.
StopRaisedFor(w) == stops_begun >= w

\* C21: once stop() has raised the stop signal, the ASR thread and the TTS
\* thread launched by the preceding start() leave their loops at their next
\* test of the loop condition, whatever is called afterwards.
C21_LoopsExitAfterStop ==
  [][\A w \in Workers :
       /\ (StopRaisedFor(w) /\ asr[w].pc = "loop" /\ asr'[w] # asr[w]) =>
            asr'[w].pc = "done"
       /\ (StopRaisedFor(w) /\ tts[w].pc = "loop" /\ TtsStep(w)) =>
            tts'[w].pc = "done"]_vars

\* Without FFmpeg the phrase a TTS thread dequeues goes straight to the
\* finally clause with one error logged, no synthesizer call and no playback;
\* the finally clause goes on to restart capture unless stop_event is set,
\* and the thread is back at its loop head afterwards.
SkipsWithoutCodec ==
  /\ [](\A w \in Workers :
          ~ffmpeg_available =>
            /\ tts[w].pc \notin {"synth", "play"}
            /\ tts[w].calls = 0 /\ tts[w].plays = 0
            /\ InBlock(w) => tts[w].error_logs = 1)
  /\ [][\A w \in Workers :
          (~ffmpeg_available /\ TtsStep(w)) =>
            /\ tts[w].pc = "loop" => tts'[w].pc \in {"finally", "done"}
            /\ tts[w].pc = "finally" =>
                 tts'[w].pc = IF stop_event THEN "loop" ELSE "resume"
            /\ (tts[w].pc = "finally" /\ stop_event) =>
                 UNCHANGED << stream_in, open_streams >>
            /\ tts[w].pc = "resume" =>
                 (tts'[w].pc = "loop" /\ tts'[w].failed_before)]_vars

\* C22 as stated: without FFmpeg the dequeued phrase gets no synthesizer call
\* and no playback, the error is reported, capture is resumed unless the
\* engine is stopping, and the thread goes on with its loop.
C22_SkipAndResume ==
  /\ SkipsWithoutCodec
  /\ [][\A w \in Workers :
          (~ffmpeg_available /\ tts[w].pc = "resume" /\ TtsStep(w)) => Opened]_vars

\* C22, amended: as C22, except that capture is resumed only if the input
\* device accepts the new stream; if it refuses, capture stays suspended and
\* the thread goes on all the same.
C22_SkipAndTryResume ==
  /\ SkipsWithoutCodec
  /\ [][\A w \in Workers :
          (~ffmpeg_available /\ tts[w].pc = "resume" /\ TtsStep(w)) =>
            (Opened \/ UNCHANGED << stream_in, open_streams >>)]_vars

\* C22 witness: without FFmpeg a thread that skipped one phrase and reopened
\* capture has dequeued the next phrase and skipped it as well.
C22_Witness ==
  \E w \in Workers :
    /\ ~ffmpeg_available
    /\ tts[w].failed_before
    /\ tts[w].pc = "finally"
    /\ tts[w].text.id = 2
    /\ tts[w].error_logs = 1
    /\ tts[w].calls = 0

\* The step put a phrase on phrase_q.
Emitted == nphrases' = nphrases + 1

\* C23: immediately after any phrase is emitted, by a recognizer final, by
\* the silence timeout or by the shutdown flush, the segment fields are at
\* their reset values: speech_seen false, _last_partial empty, the activity
\* time restarted and _last_partial_time back at its initial value.
C23_ResetOnEmission ==
  [][Emitted =>
       /\ ~speech_seen'
       /\ last_partial' = << >>
       /\ since_activity' = 0
       /\ since_partial' = partial_throttle_sec]_vars

\* C24: speech_seen is false when an ASR thread starts its loop and when it
\* leaves it; it becomes true only when a non-empty partial is read, and
\* false again only on a recognizer final or a silence check that fires.
C24_SegmentStateMachine ==
  [][/\ \A w \in Workers :
          /\ (asr[w].pc = "none" /\ asr'[w].pc = "loop") => ~speech_seen
          /\ (asr[w].pc = "loop" /\ asr'[w].pc = "done") => ~speech_seen'
     /\ (~speech_seen /\ speech_seen') => PartialRead
     /\ (speech_seen /\ ~speech_seen') => (FinalRead \/ Fired)]_vars

\* The step was a frame that gave neither a final nor a non-empty partial, so
\* that the silence check was run on it.
EmptyPartialRead == FrameFed /\ ~heard'.final /\ heard'.got = << >>

\* C25: the silence check calls FinalResult() only with speech_seen true and
\* at least silence_finalize_sec since the last activity; a check that finds
\* either false calls nothing on the recognizer and changes no state: the
\* check after queue.Empty changes nothing at all, the check after an empty
\* partial leaves the segment fields and phrase_q as they were.
C25_SilenceGuard ==
  [][/\ Fired => (speech_seen /\ since_activity >= silence_finalize_sec)
     /\ ~(speech_seen /\ since_activity >= silence_finalize_sec) =>
          /\ \A w \in Workers :
               (AsrLoop(w) /\ ~stop_event /\ audio_q = << >>) =>
                 /\ ~heard'.asked
                 /\ UNCHANGED << model_loaded, rec_dirty, stop_event, stream_in,
                                 open_streams, audio_q, phrase_q, engine_cfg,
                                 segment, cpc, btn_running, asr, tts, history >>
          /\ EmptyPartialRead =>
               /\ ~heard'.asked
               /\ UNCHANGED << segment, phrase_q, nphrases >>]_vars

\* C25 witness: with speech_seen true but less than silence_finalize_sec
\* since the last activity, a silence check has run and left everything as
\* it was.
C25_Witness ==
  /\ speech_seen
  /\ since_activity > 0
  /\ since_activity < silence_finalize_sec
  /\ heard = NoHeard
  /\ phrase_q = << >>
  /\ nphrases = 0
  /\ \E w \in Workers : asr[w].pc = "loop"
  /\ \A w \in Workers : asr[w].pc \in {"none", "loop"}

\* C26: when the recognizer reports final, a phrase is emitted if and only if
\* the stripped final text is not empty and has at least min_phrase_len
\* characters; the phrase carries that text and goes to the end of phrase_q,
\* and the same step resets the segment (speech_seen false, _last_partial
\* empty, activity time restarted).
C26_RecognizerFinal ==
  [][/\ \A raw \in RawTexts :
          (FinalRead /\ accept_final(raw)) =>
            /\ Emitted <=>
                 (Strip(raw) # << >> /\ Len(Strip(raw)) >= min_phrase_len)
            /\ Emitted =>
                 /\ phrase_q' = Append(phrase_q, phrase_q'[Len(phrase_q')])
                 /\ phrase_q'[Len(phrase_q')].text = Strip(raw)
                 /\ heard'.put = nphrases'
     /\ FinalRead =>
          /\ Emitted \/ UNCHANGED << phrase_q, nphrases >>
          /\ ~speech_seen' /\ last_partial' = << >> /\ since_activity' = 0]_vars

\* C26 witness: a recognizer final has just put its phrase on the queue,
\* closing an utterance in which a partial had been surfaced some time
\* before; the segment is reset.
C26_Witness ==
  /\ heard.final
  /\ heard.put # 0
  /\ Queued(heard.put)
  /\ ~speech_seen
  /\ last_partial = << >>
  /\ since_activity = 0
  /\ since_partial > 0
  /\ since_partial < partial_throttle_sec

\* stop() has returned and every thread that was launched has ended.
SessionOver ==
  /\ starts >= 1
  /\ cpc = "idle"
  /\ stops_returned >= 1
  /\ stops_returned = stops_begun
  /\ \A w \in Workers :
       asr[w].pc \in {"none", "done"} /\ tts[w].pc \in {"none", "done"}

\* C27: an ASR thread leaves its loop only on seeing stop_event, asks for the
\* final result then, and a phrase this flush emits is taken by the
\* synthesis stage: it is not left waiting on phrase_q when the session is over.
C27_FlushReachesSynthesis ==
  /\ [][\A w \in Workers :
          (asr[w].pc = "loop" /\ asr'[w].pc = "done") =>
            (stop_event /\ heard'.flush)]_vars
  /\ [](SessionOver => ~(heard.flush /\ heard.put # 0 /\ Queued(heard.put)))

\* The time _tts_with_retries should wait for these answers from attempt n on
\* if it waited only before retrying: tts_backoff * n after each failed
\* attempt that is followed by another attempt.
RECURSIVE WaitBeforeRetry(_, _)
WaitBeforeRetry(n, answers) ==
  IF n >= tts_max_retries \/ answers[n]
  THEN 0
  ELSE tts_backoff * n + WaitBeforeRetry(n + 1, answers)

\* C28: the time _tts_with_retries has slept for a phrase is the sum of
\* tts_backoff * n over the failed attempts n that were followed by a retry,
\* so tts_backoff * (1 + ... + (tts_max_retries - 1)) when every attempt failed.
C28_LinearBackoff ==
  \A w \in Workers :
    tts[w].answers # << >> =>
      tts[w].slept = WaitBeforeRetry(1, tts[w].answers)

\* A TTS thread has been launched and has not ended.
TtsAlive == \E w \in Workers : tts[w].pc \notin {"none", "done"}

\* C29: while a TTS thread is alive, the capture stream handle is changed
\* only by a step of a TTS thread.
C29_SingleWriter ==
  [][(TtsAlive /\ stream_in' # stream_in) => \E w \in Workers : TtsStep(w)]_vars

\* C30: with keep_mp3 false, once the try block of a phrase is over (the
\* thread is in its finally clause) the raw .mp3 written for the phrase is
\* no longer in cache_dir.
C30_RawFileRemoved ==
  \A w \in Workers :
    (~keep_mp3 /\ tts[w].pc \in {"finally", "resume"}) => ~tts[w].mp3

\* C31: frames wait on audio_q in capture order, a frame in the hand of an
\* ASR thread was captured before every frame that waits, and a frame is fed
\* to the recognizer only when no frame captured before it is still to be fed.
C31_FrameOrder ==
  /\ [](/\ \A k \in 1..(Len(audio_q) - 1) : audio_q[k].id < audio_q[k + 1].id
        /\ \A w \in Workers, k \in 1..Len(audio_q) :
             asr[w].pc = "feed" => asr[w].inbuf.id < audio_q[k].id)
  /\ [][\A w \in Workers, v \in Workers :
          (asr[w].pc = "feed" /\ asr'[w] # asr[w] /\ asr[v].pc = "feed" /\ v # w)
            => asr[v].inbuf.id > asr[w].inbuf.id]_vars

\* ------------------------------------------------------- the frame queue
\* C32: audio_q never holds more than audio_q_maxsize frames; a callback
\* blocked on a full queue keeps its frame until a slot is free and then puts
\* it at the tail; every frame that passes the gate is either put at the tail
\* or held by the blocked callback; and a full queue loses a frame only at
\* its head, to the ASR thread, or to the drain of stop().
C32_BoundedBlockingQueue ==
  /\ [](Len(audio_q) <= audio_q_maxsize)
  /\ [][(pending # NoFrame /\ pending' # pending)
          => /\ pending' = NoFrame
             /\ Len(audio_q) < audio_q_maxsize
             /\ audio_q' = Append(audio_q, pending)]_vars
  /\ [][nframes' = nframes + 1
          => \/ /\ Len(audio_q) < audio_q_maxsize
                /\ Len(audio_q') = Len(audio_q) + 1
                /\ audio_q'[Len(audio_q')].id = nframes'
             \/ /\ Len(audio_q) = audio_q_maxsize
                /\ pending'.id = nframes'
                /\ audio_q' = audio_q]_vars
  /\ [][Len(audio_q) = audio_q_maxsize
          => \/ audio_q' = audio_q
             \/ audio_q' = Tail(audio_q) /\ \E w \in Workers : asr'[w].inbuf = Head(audio_q)
             \/ cpc = "stop_drain" /\ cpc' = "stop_return"]_vars

\* The callback is blocked with the last frame of the burst on a full queue
\* whose oldest frame the ASR thread has taken.
C32_Witness ==
  /\ pending.id = BurstFrames
  /\ Len(audio_q) = audio_q_maxsize
  /\ Head(audio_q).id = 2
  /\ audio_q[audio_q_maxsize].id = audio_q_maxsize + 1

\* C35: stop() is never left waiting in stop_input() for a callback that is
\* blocked on a full audio_q when every ASR thread has exited, so that no
\* thread is left to free a slot and stop() cannot return.
C35_StopNeverStuck ==
  ~(/\ cpc = "stop_drain"
    /\ stream_in # NoStream
    /\ pending # NoFrame
    /\ Len(audio_q) = audio_q_maxsize
    /\ \A w \in Workers : asr[w].pc \in {"none", "done"})

\* C33: with the gate enabled, a callback handed a block whose RMS amplitude
\* is below rms_gate_threshold leaves audio_q as it is, and a callback handed
\* any other block puts one new frame at the tail of audio_q, or holds it in
\* the blocked put() when audio_q is full.
C33_NoiseGate ==
  [][\A samples \in FrameSamples :
       (enable_noise_gate /\ open_streams # {} /\ pending = NoFrame
          /\ audio_callback(samples))
         => IF RmsBelow(samples, rms_gate_threshold)
            THEN UNCHANGED << audio_q, pending, nframes >>
            ELSE /\ nframes' = nframes + 1
                 /\ \/ /\ audio_q' = Append(audio_q, audio_q'[Len(audio_q')])
                       /\ audio_q'[Len(audio_q')].id = nframes'
                    \/ pending'.id = nframes']_vars

\* The gate is on and a frame that passed it waits on audio_q.
C33_Witness ==
  /\ enable_noise_gate
  /\ nframes = 1
  /\ Len(audio_q) = 1
  /\ audio_q[1].id = 1
  /\ pending = NoFrame

\* ------------------------------------------------------- the stop signal
\* C34: stop_event becomes set only in the step of stop() that sets it, and
\* becomes clear only in a step of start(); no step of the frame callback, of
\* an asr_worker or of a tts_worker, failed or not, changes it.
C34_StopSignalExplicit ==
  [][/\ (~stop_event /\ stop_event')
         => (cpc \in Callable /\ cpc' = "stop_drain"
               /\ stops_begun' = stops_begun + 1)
     /\ (stop_event /\ ~stop_event')
         => (cpc \in Callable /\ cpc' = "start_input")
     /\ (asr' # asr \/ tts' # tts \/ nframes' # nframes \/ pending' # pending)
         => stop_event' = stop_event]_vars

\* A phrase failed in a tts_worker and the engine was not stopped.
C34_Witness ==
  /\ ~stop_event
  /\ stops_begun = 0
  /\ \E w \in Workers : tts[w].pc = "finally" /\ tts[w].error_logs > 0

\* ---------------------------------------------------- the capture stream
\* C36: once stop() has returned and every thread that was launched has
\* ended, no capture stream is open.
C36_CaptureOffAfterStop == SessionOver => (stream_in = NoStream /\ open_streams = {})

\* C37: at most one capture stream is open, the handle names it, and no step
\* replaces the handle of a stream that is still open.
C37_OneCaptureStream ==
  /\ [](Cardinality(open_streams) <= 1)
  /\ [](open_streams # {} => stream_in \in open_streams)
  /\ [][(stream_in \in open_streams /\ stream_in' # stream_in)
          => stream_in \notin open_streams']_vars

\* ------------------------------------------------- reaching the timeout
\* No frame waits or is being fed, and the device delivers no further one.
Quiet ==
  /\ nframes = MaxFrames
  /\ audio_q = << >>
  /\ pending = NoFrame
  /\ \A w \in Workers : asr[w].pc # "feed"

\* C38: while the engine keeps running, once speech was seen and no further
\* frame arrives, a silence check eventually finds the timeout reached, calls
\* FinalResult() and leaves the segment idle (speech_seen clear, no partial).
C38_SilenceReached ==
  (speech_seen /\ Quiet)
    ~> (heard.asked /\ ~speech_seen /\ last_partial = << >> /\ Quiet)

\* The last frame was fed long ago, and the silence check of an empty poll
\* has fired and left the segment idle.
C38_Witness ==
  /\ Quiet
  /\ heard.asked
  /\ ~speech_seen
  /\ last_partial = << >>
  /\ since_activity = 0
  /\ ~stop_event

\* ------------------------------------------------------- ducking disabled
\* C39: with ducking disabled no step of a tts_worker, whatever way the
\* per-phrase block is left, closes a capture stream, opens one or changes
\* the handle.
C39_NoDuckingNoCaptureChange ==
  [][\A w \in Workers :
       (~ducking /\ TtsStep(w)) => UNCHANGED << stream_in, open_streams >>]_vars

\* With ducking disabled a clip has been played and the capture stream the
\* start() opened is still open.
C39_Witness ==
  /\ ~ducking
  /\ \E w \in Workers : tts[w].pc = "finally" /\ tts[w].plays = 1
  /\ stream_in \in open_streams
  /\ ~stop_event

\* ------------------------------------------------------- on_final
\* C40: on_final has been called as many times as phrases were put on
\* phrase_q; a step calls it once exactly when it puts a phrase, which has at
\* least min_phrase_len characters and was not on phrase_q yet when on_final
\* was called; a candidate shorter than min_phrase_len causes no call.
C40_NotifiedOncePerPhrase ==
  /\ [](txt.lines = nphrases /\ ~txt.queued)
  /\ [][txt' # txt
          => /\ txt'.lines = txt.lines + 1
             /\ nphrases' = nphrases + 1
             /\ Len(phrase_q') = Len(phrase_q) + 1
             /\ phrase_q'[Len(phrase_q')].id = nphrases'
             /\ Len(phrase_q'[Len(phrase_q')].text) >= min_phrase_len]_vars
  /\ [][nphrases' # nphrases => txt'.lines = txt.lines + 1]_vars
  /\ [][\A text \in {Strip(raw) : raw \in RawTexts} :
          (Len(text) < min_phrase_len /\ emit_phrase(text)) => txt' = txt]_vars

\* The transcript has its first line and the phrase it shows is the one
\* waiting on phrase_q.
C40_Witness ==
  /\ txt.lines = 1
  /\ heard.put = 1
  /\ Len(phrase_q) = 1
  /\ phrase_q[1].id = 1

====
